---- MODULE Spec2Model ----
(***************************************************************************)
(* Model of tensorflow_gan/examples/image_compression/train.py: the flags, *)
(* main's graph-construction steps, the learning-rate schedule built by    *)
(* _lr, the GANModel tuple built by _get_gan_model, and the alternating    *)
(* training loop that main starts with tfgan.gan_train.                    *)
(*                                                                         *)
(* Float flags are modelled as integers in a fixed unit: learning rates in *)
(* units of 1e-7 (generator_lr 1e-5 is 100, discriminator_lr 1e-6 is 10),  *)
(* weight_factor in thousandths (4000.0 is 4000000).                       *)
(***************************************************************************)
EXTENDS Integers, Sequences, FiniteSets, TLC

VARIABLES
    FLAGS,              \* the parsed flags, fixed for the run
    pc,                 \* main's position
    log_dir_exists,     \* tf.io.gfile.exists(FLAGS.train_log_dir)
    log_dir_existed,    \* whether the directory existed when main started
    makedirs_calls,     \* calls of tf.io.gfile.makedirs so far
    checkpoint_step,    \* global step of the latest checkpoint in train_log_dir
    trainable_variables,\* the graph's TRAINABLE_VARIABLES collection
    created_log,        \* per network application, the variables it created
    gan_model,          \* <<>> or <<the GANModel tuple>>
    gan_loss,           \* <<>> or <<the GANLoss tuple>>
    optimizers,         \* <<>> or <<[gen_lr, dis_lr]>>: the rates handed to Adam
    train_steps,        \* <<>> or <<the GANTrainSteps tuple>>
    gan_train_calls,    \* calls of tfgan.gan_train so far
    global_step,        \* the graph's global step variable
    start_step,         \* global step when the training session was created
    last_step,          \* StopAtStepHook's last step
    hook_i,             \* RunTrainOpsHook's loop index inside before_run
    gen_updates,        \* generator train op runs in this process
    dis_updates,        \* discriminator train op runs in this process
    gen_lr_used,        \* <<>> or <<[step, value]>>: rate read by the last generator update
    dis_lr_used         \* <<>> or <<[step, value]>>: rate read by the last discriminator update

vars == <<FLAGS, pc, log_dir_exists, log_dir_existed, makedirs_calls,
          checkpoint_step, trainable_variables, created_log, gan_model,
          gan_loss, optimizers, train_steps, gan_train_calls, global_step,
          start_step, last_step, hook_i, gen_updates, dis_updates,
          gen_lr_used, dis_lr_used>>

----------------------------------------------------------------------------
\* Bounds of the model.

\* Largest max_number_of_steps tried.
MaxSteps == 3
\* Decay periods whose boundaries a restored checkpoint can sit at.
MaxPeriods == 2

\* Program constants.
decay_steps == 60000
decay_rate_num == 9
decay_rate_den == 10
generator_train_steps == 1

\* Flag values tried.  The flag parser coerces types and validates nothing
\* else, so negative and zero values are inputs too.
WeightFactors == {-1000, 0, 1, 4000000}
StepBudgets == (-1)..MaxSteps
GeneratorLrs == {-100, 0, 100}
DiscriminatorLrs == {0, 10}

\* Global steps a checkpoint left in train_log_dir by an earlier run can hold:
\* none (0), and the steps around each decay boundary.
CheckpointSteps ==
    {0} \cup UNION {{p * decay_steps - 2, p * decay_steps - 1, p * decay_steps} :
                      p \in 1..MaxPeriods}

----------------------------------------------------------------------------
\* Arithmetic helpers.

RECURSIVE Pow(_, _)
Pow(b, n) == IF n <= 0 THEN 1 ELSE b * Pow(b, n - 1)

\* Python's int(bool).
BoolToInt(b) == IF b THEN 1 ELSE 0

----------------------------------------------------------------------------
\* Learning rates.  A rate handed to an optimizer is a graph node: a Python
\* float (a constant) or the tensor exponential_decay builds.  A node's value
\* at a global step is (num / den) * decay_rate^(frac / decay_steps); frac is
\* 0 for a constant and for a staircase decay.

ConstantNode(value) == [op |-> "const", learning_rate |-> value,
                        decay_steps |-> 1, decay_rate |-> <<1, 1>>,
                        staircase |-> TRUE]

exponential_decay(learning_rate, steps, rate, staircase) ==
    [op |-> "exponential_decay", learning_rate |-> learning_rate,
     decay_steps |-> steps, decay_rate |-> rate, staircase |-> staircase]

\* decayed = learning_rate * decay_rate ^ (global_step / decay_steps), the
\* quotient floored when staircase is set.
EvalRate(node, step) ==
    IF node.op = "const"
    THEN [num |-> node.learning_rate, den |-> 1, frac |-> 0]
    ELSE LET p == step \div node.decay_steps
             r == step % node.decay_steps
         IN  [num  |-> node.learning_rate * Pow(node.decay_rate[1], p),
              den  |-> Pow(node.decay_rate[2], p),
              frac |-> IF node.staircase THEN 0 ELSE r]

\* A mutant of _lr: the generator rate is not decayed.
LrNoDecay(gen_lr_base, dis_lr_base) ==
    [gen_lr |-> ConstantNode(gen_lr_base), dis_lr |-> ConstantNode(dis_lr_base)]

\* A mutant of _lr: the decay is smooth, not a staircase.
LrSmooth(gen_lr_base, dis_lr_base) ==
    [gen_lr |-> exponential_decay(gen_lr_base, decay_steps,
                                  <<decay_rate_num, decay_rate_den>>, FALSE),
     dis_lr |-> ConstantNode(dis_lr_base)]

\* A mutant of _lr: the discriminator rate follows the schedule too.
LrBothDecay(gen_lr_base, dis_lr_base) ==
    [gen_lr |-> exponential_decay(gen_lr_base, decay_steps,
                                  <<decay_rate_num, decay_rate_den>>, TRUE),
     dis_lr |-> exponential_decay(dis_lr_base, decay_steps,
                                  <<decay_rate_num, decay_rate_den>>, TRUE)]

\* _lr: the generator and discriminator learning rates.
_lr(gen_lr_base, dis_lr_base) ==
    [gen_lr |-> exponential_decay(gen_lr_base, decay_steps,
                                  <<decay_rate_num, decay_rate_den>>, TRUE),
     dis_lr |-> ConstantNode(dis_lr_base)]

\* _optimizer: Adam for each player, keeping the rate it was given.
_optimizer(gen_lr, dis_lr) ==
    [gen_opt |-> [learning_rate |-> gen_lr, beta1 |-> "0.5", epsilon |-> "1e-8"],
     dis_opt |-> [learning_rate |-> dis_lr, beta1 |-> "0.5", epsilon |-> "1e-8"]]

----------------------------------------------------------------------------
\* Variable scopes.  A variable is named by its scope and its layer.

GeneratorLayers == {"encoder", "decoder"}
DiscriminatorLayers == {"conv", "logits"}

VarNames(scope_name, layers) == {[scope |-> scope_name, layer |-> l] : l \in layers}

\* A network function applied under a variable scope: each layer asks
\* get_variable for its variable.  Without reuse a variable is created, and
\* one that exists already is an error; with reuse the existing variable is
\* returned, and a missing one is an error.
ApplyNetwork(store, scope, layers) ==
    LET asked == VarNames(scope.name, layers)
        error == IF scope.reuse THEN ~(asked \subseteq store)
                                ELSE asked \cap store # {}
    IN  [error   |-> error,
         used    |-> asked,
         created |-> IF scope.reuse \/ error THEN {} ELSE asked,
         store   |-> IF scope.reuse \/ error THEN store ELSE store \cup asked]

\* _get_trainable_variables: the trainable variables collected under a scope.
\* The collection is filtered by the scope's name as a prefix; the scope names
\* of this graph are not prefixes of one another, so this is the variables of
\* that scope.
_get_trainable_variables(store, scope) == {v \in store : v.scope = scope.name}

\* A mutant of RealDataScope: the real data is scored under a scope of its own.
RealDataScopeFresh(dis_scope) == [name |-> "real", reuse |-> FALSE]

\* The scope the discriminator is applied to the real data under.
RealDataScope(dis_scope) == [name |-> dis_scope.name, reuse |-> TRUE]

\* _get_gan_model: the GANModel tuple, with the variable store it leaves and
\* the variables each discriminator application created.
_get_gan_model(store, generator_inputs, generated_data, real_data, generator_scope) ==
    LET generator_vars == _get_trainable_variables(store, generator_scope)
        dis_scope == [name |-> "discriminator", reuse |-> FALSE]
        on_gen    == ApplyNetwork(store, dis_scope, DiscriminatorLayers)
        on_real   == ApplyNetwork(on_gen.store, RealDataScope(dis_scope),
                                  DiscriminatorLayers)
        discriminator_vars == _get_trainable_variables(on_real.store, dis_scope)
    IN  [error   |-> on_gen.error \/ on_real.error,
         store   |-> on_real.store,
         created |-> <<on_gen.created, on_real.created>>,
         model   |->
           [generator_inputs |-> generator_inputs,
            generated_data |-> generated_data,
            generator_variables |-> generator_vars,
            generator_scope |-> generator_scope,
            real_data |-> real_data,
            discriminator_real_outputs |->
                [data |-> real_data, variables |-> on_real.used],
            discriminator_gen_outputs |->
                [data |-> generated_data, variables |-> on_gen.used],
            discriminator_variables |-> discriminator_vars,
            discriminator_scope |-> dis_scope]]

----------------------------------------------------------------------------
\* Step counts and loss options that main derives from weight_factor.

\* A mutant of DiscriminatorTrainSteps: the discriminator always trains.
DiscriminatorTrainStepsAlways(weight_factor) == 1

\* A mutant of DiscriminatorTrainSteps: a zero weight counts as adversarial.
DiscriminatorTrainStepsNonNegative(weight_factor) == BoolToInt(weight_factor >= 0)

\* discriminator_train_steps of the GANTrainSteps tuple.
DiscriminatorTrainSteps(weight_factor) == BoolToInt(weight_factor > 0)

\* A mutant of AddSummaries: summaries whenever the weight is not zero.
AddSummariesNonZero(weight_factor) == weight_factor # 0

\* add_summaries of the tfgan.gan_loss call.
AddSummaries(weight_factor) == weight_factor > 0

\* A mutant of StopNumSteps: the budget is off by one.
StopNumStepsPlusOne(max_number_of_steps) == max_number_of_steps + 1

\* num_steps of the StopAtStepHook main hands to gan_train.
StopNumSteps(max_number_of_steps) == max_number_of_steps

\* A mutant of SkipTraining: the training loop is never skipped.
SkipTrainingNever(max_number_of_steps) == FALSE

\* Whether main returns before the training loop.
SkipTraining(max_number_of_steps) == max_number_of_steps = 0

\* A mutant of NeedsMakedirs: the directory is never created.
NeedsMakedirsNever(exists) == FALSE

\* Whether main creates train_log_dir.
NeedsMakedirs(exists) == ~exists

----------------------------------------------------------------------------
\* The state when main is entered.

Init ==
    /\ FLAGS \in [weight_factor : WeightFactors,
                  max_number_of_steps : StepBudgets,
                  generator_lr : GeneratorLrs,
                  discriminator_lr : DiscriminatorLrs]
    /\ pc = "start"
    /\ log_dir_exists \in BOOLEAN
    /\ log_dir_existed = log_dir_exists
    /\ makedirs_calls = 0
    /\ checkpoint_step \in CheckpointSteps
    /\ (~log_dir_exists => checkpoint_step = 0)
    /\ trainable_variables = {}
    /\ created_log = <<>>
    /\ gan_model = <<>>
    /\ gan_loss = <<>>
    /\ optimizers = <<>>
    /\ train_steps = <<>>
    /\ gan_train_calls = 0
    /\ global_step = 0
    /\ start_step = 0
    /\ last_step = 0
    /\ hook_i = 0
    /\ gen_updates = 0
    /\ dis_updates = 0
    /\ gen_lr_used = <<>>
    /\ dis_lr_used = <<>>

----------------------------------------------------------------------------
\* main, one action per block of its body.

\* if not exists(train_log_dir): makedirs(train_log_dir)
MakeLogDir ==
    /\ pc = "start"
    /\ IF NeedsMakedirs(log_dir_exists)
       THEN /\ log_dir_exists' = TRUE
            /\ makedirs_calls' = makedirs_calls + 1
       ELSE UNCHANGED <<log_dir_exists, makedirs_calls>>
    /\ pc' = "generator"
    /\ UNCHANGED <<FLAGS, log_dir_existed, checkpoint_step, trainable_variables,
                   created_log, gan_model, gan_loss, optimizers, train_steps,
                   gan_train_calls, global_step, start_step, last_step, hook_i,
                   gen_updates, dis_updates, gen_lr_used, dis_lr_used>>

\* The input pipeline and the compression model under the generator scope.
BuildGenerator ==
    /\ pc = "generator"
    /\ LET gen == ApplyNetwork(trainable_variables,
                               [name |-> "generator", reuse |-> FALSE],
                               GeneratorLayers)
       IN  /\ trainable_variables' = gen.store
           /\ created_log' = Append(created_log, gen.created)
           /\ pc' = IF gen.error THEN "aborted" ELSE "gan_model"
    /\ UNCHANGED <<FLAGS, log_dir_exists, log_dir_existed, makedirs_calls,
                   checkpoint_step, gan_model, gan_loss, optimizers, train_steps,
                   gan_train_calls, global_step, start_step, last_step, hook_i,
                   gen_updates, dis_updates, gen_lr_used, dis_lr_used>>

\* gan_model = _get_gan_model(images, reconstructions, images, gen_scope)
BuildGanModel ==
    /\ pc = "gan_model"
    /\ LET built == _get_gan_model(trainable_variables, "images", "reconstructions",
                                   "images", [name |-> "generator", reuse |-> FALSE])
       IN  /\ trainable_variables' = built.store
           /\ created_log' = created_log \o built.created
           /\ IF built.error
              THEN /\ pc' = "aborted"
                   /\ UNCHANGED gan_model
              ELSE /\ pc' = "loss"
                   /\ gan_model' = <<built.model>>
    /\ UNCHANGED <<FLAGS, log_dir_exists, log_dir_existed, makedirs_calls,
                   checkpoint_step, gan_loss, optimizers, train_steps,
                   gan_train_calls, global_step, start_step, last_step, hook_i,
                   gen_updates, dis_updates, gen_lr_used, dis_lr_used>>

\* gan_loss, then the pixel loss combined into it with weight_factor.
BuildLoss ==
    /\ pc = "loss"
    /\ gan_loss' = <<[add_summaries |-> AddSummaries(FLAGS.weight_factor),
                      pixel_loss |-> "l1",
                      adversarial_weight |-> FLAGS.weight_factor]>>
    /\ pc' = "train_ops"
    /\ UNCHANGED <<FLAGS, log_dir_exists, log_dir_existed, makedirs_calls,
                   checkpoint_step, trainable_variables, created_log, gan_model,
                   optimizers, train_steps, gan_train_calls, global_step,
                   start_step, last_step, hook_i, gen_updates, dis_updates,
                   gen_lr_used, dis_lr_used>>

\* The learning rates, the optimizers and the train ops.
BuildTrainOps ==
    /\ pc = "train_ops"
    /\ LET rates == _lr(FLAGS.generator_lr, FLAGS.discriminator_lr)
       IN  optimizers' = <<_optimizer(rates.gen_lr, rates.dis_lr)>>
    /\ pc' = "train_steps"
    /\ UNCHANGED <<FLAGS, log_dir_exists, log_dir_existed, makedirs_calls,
                   checkpoint_step, trainable_variables, created_log, gan_model,
                   gan_loss, train_steps, gan_train_calls, global_step,
                   start_step, last_step, hook_i, gen_updates, dis_updates,
                   gen_lr_used, dis_lr_used>>

\* train_steps = GANTrainSteps(1, int(weight_factor > 0))
BuildTrainSteps ==
    /\ pc = "train_steps"
    /\ train_steps' =
         <<[generator_train_steps |-> generator_train_steps,
            discriminator_train_steps |-> DiscriminatorTrainSteps(FLAGS.weight_factor)]>>
    /\ pc' = "check_steps"
    /\ UNCHANGED <<FLAGS, log_dir_exists, log_dir_existed, makedirs_calls,
                   checkpoint_step, trainable_variables, created_log, gan_model,
                   gan_loss, optimizers, gan_train_calls, global_step,
                   start_step, last_step, hook_i, gen_updates, dis_updates,
                   gen_lr_used, dis_lr_used>>

\* if max_number_of_steps == 0: return
CheckSteps ==
    /\ pc = "check_steps"
    /\ pc' = IF SkipTraining(FLAGS.max_number_of_steps) THEN "returned" ELSE "gan_train"
    /\ UNCHANGED <<FLAGS, log_dir_exists, log_dir_existed, makedirs_calls,
                   checkpoint_step, trainable_variables, created_log, gan_model,
                   gan_loss, optimizers, train_steps, gan_train_calls,
                   global_step, start_step, last_step, hook_i, gen_updates,
                   dis_updates, gen_lr_used, dis_lr_used>>

----------------------------------------------------------------------------
\* tfgan.gan_train with the sequential train hooks: a monitored session whose
\* every run call first runs the generator hook (the generator train op,
\* generator_train_steps times), then the discriminator hook (the discriminator
\* train op, discriminator_train_steps times), then increments the global step;
\* the stop hook asks for a stop once the global step reaches last_step.

\* tfgan.gan_train(...): the session is created, the global step restored from
\* the latest checkpoint of train_log_dir, and the stop hook armed.
GanTrain ==
    /\ pc = "gan_train"
    /\ gan_train_calls' = gan_train_calls + 1
    /\ global_step' = checkpoint_step
    /\ start_step' = checkpoint_step
    /\ last_step' = checkpoint_step + StopNumSteps(FLAGS.max_number_of_steps)
    /\ hook_i' = 0
    /\ pc' = "gen_hook"
    /\ UNCHANGED <<FLAGS, log_dir_exists, log_dir_existed, makedirs_calls,
                   checkpoint_step, trainable_variables, created_log, gan_model,
                   gan_loss, optimizers, train_steps, gen_updates, dis_updates,
                   gen_lr_used, dis_lr_used>>

\* One run of the generator train op by the generator hook.
RunGeneratorOp ==
    /\ pc = "gen_hook"
    /\ hook_i < train_steps[1].generator_train_steps
    /\ hook_i' = hook_i + 1
    /\ gen_updates' = gen_updates + 1
    /\ gen_lr_used' =
         <<[step  |-> global_step,
            value |-> EvalRate(optimizers[1].gen_opt.learning_rate, global_step)]>>
    /\ UNCHANGED <<FLAGS, pc, log_dir_exists, log_dir_existed, makedirs_calls,
                   checkpoint_step, trainable_variables, created_log, gan_model,
                   gan_loss, optimizers, train_steps, gan_train_calls,
                   global_step, start_step, last_step, dis_updates, dis_lr_used>>

\* The generator hook's loop is over; the discriminator hook is next.
EndGeneratorHook ==
    /\ pc = "gen_hook"
    /\ hook_i >= train_steps[1].generator_train_steps
    /\ hook_i' = 0
    /\ pc' = "dis_hook"
    /\ UNCHANGED <<FLAGS, log_dir_exists, log_dir_existed, makedirs_calls,
                   checkpoint_step, trainable_variables, created_log, gan_model,
                   gan_loss, optimizers, train_steps, gan_train_calls,
                   global_step, start_step, last_step, gen_updates, dis_updates,
                   gen_lr_used, dis_lr_used>>

\* One run of the discriminator train op by the discriminator hook.
RunDiscriminatorOp ==
    /\ pc = "dis_hook"
    /\ hook_i < train_steps[1].discriminator_train_steps
    /\ hook_i' = hook_i + 1
    /\ dis_updates' = dis_updates + 1
    /\ dis_lr_used' =
         <<[step  |-> global_step,
            value |-> EvalRate(optimizers[1].dis_opt.learning_rate, global_step)]>>
    /\ UNCHANGED <<FLAGS, pc, log_dir_exists, log_dir_existed, makedirs_calls,
                   checkpoint_step, trainable_variables, created_log, gan_model,
                   gan_loss, optimizers, train_steps, gan_train_calls,
                   global_step, start_step, last_step, gen_updates, gen_lr_used>>

\* The discriminator hook's loop is over; the session runs its own op.
EndDiscriminatorHook ==
    /\ pc = "dis_hook"
    /\ hook_i >= train_steps[1].discriminator_train_steps
    /\ hook_i' = 0
    /\ pc' = "run"
    /\ UNCHANGED <<FLAGS, log_dir_exists, log_dir_existed, makedirs_calls,
                   checkpoint_step, trainable_variables, created_log, gan_model,
                   gan_loss, optimizers, train_steps, gan_train_calls,
                   global_step, start_step, last_step, gen_updates, dis_updates,
                   gen_lr_used, dis_lr_used>>

\* The global step is incremented; after the run the stop hook compares it
\* with last_step.
RunGlobalStepInc ==
    /\ pc = "run"
    /\ global_step' = global_step + 1
    /\ pc' = IF global_step + 1 >= last_step THEN "done" ELSE "gen_hook"
    /\ UNCHANGED <<FLAGS, log_dir_exists, log_dir_existed, makedirs_calls,
                   checkpoint_step, trainable_variables, created_log, gan_model,
                   gan_loss, optimizers, train_steps, gan_train_calls,
                   start_step, last_step, hook_i, gen_updates, dis_updates,
                   gen_lr_used, dis_lr_used>>

\* The process is terminated from outside.
Terminate ==
    /\ pc \notin {"returned", "done", "aborted", "killed"}
    /\ pc' = "killed"
    /\ UNCHANGED <<FLAGS, log_dir_exists, log_dir_existed, makedirs_calls,
                   checkpoint_step, trainable_variables, created_log, gan_model,
                   gan_loss, optimizers, train_steps, gan_train_calls,
                   global_step, start_step, last_step, hook_i, gen_updates,
                   dis_updates, gen_lr_used, dis_lr_used>>

\* The steps of the program itself.
Main ==
    \/ MakeLogDir
    \/ BuildGenerator
    \/ BuildGanModel
    \/ BuildLoss
    \/ BuildTrainOps
    \/ BuildTrainSteps
    \/ CheckSteps
    \/ GanTrain
    \/ RunGeneratorOp
    \/ EndGeneratorHook
    \/ RunDiscriminatorOp
    \/ EndDiscriminatorHook
    \/ RunGlobalStepInc

Next == Main \/ Terminate

Spec == Init /\ [][Next]_vars

\* A process that is not terminated keeps running: the interpreter and the
\* session take every step that is enabled.
FairSpec == Init /\ [][Next]_vars /\ WF_vars(Main)

----------------------------------------------------------------------------
\* Properties.

\* Positions inside the training loop.
LoopPcs == {"gen_hook", "dis_hook", "run"}

\* Training iterations completed by this process.
Iterations == global_step - start_step

\* Two rate values are the same number.
RateEq(a, b) == a.frac = 0 /\ b.frac = 0 /\ a.num * b.den = b.num * a.den

\* Rate value a is at most rate value b (denominators are positive).
RateLeq(a, b) == a.frac = 0 /\ b.frac = 0 /\ a.num * b.den <= b.num * a.den

\* The integer n as a rate value.
RateOf(n) == [num |-> n, den |-> 1, frac |-> 0]

\* C1: the discriminator step count handed to the training loop is 0 when
\* weight_factor is 0 and 1 for every weight_factor above 0; the generator
\* step count is always 1.
C1_DiscriminatorStepCount ==
    train_steps # <<>> =>
        /\ (FLAGS.weight_factor = 0 => train_steps[1].discriminator_train_steps = 0)
        /\ (FLAGS.weight_factor > 0 => train_steps[1].discriminator_train_steps = 1)
        /\ train_steps[1].generator_train_steps = 1

C1_Witness ==
    /\ gan_train_calls = 1
    /\ FLAGS.weight_factor = 1
    /\ train_steps # <<>>
    /\ train_steps[1].discriminator_train_steps = 1

\* C2: with max_number_of_steps = 0 gan_train is never called and main
\* returns before the training loop; with any other value gan_train is called
\* (unless the process is terminated first).
C2_SkipsLoopOnlyAtZero ==
    /\ [](FLAGS.max_number_of_steps = 0 => gan_train_calls = 0 /\ pc \notin LoopPcs)
    /\ [](pc = "returned" => FLAGS.max_number_of_steps = 0)
    /\ (FLAGS.max_number_of_steps = 0 ~> pc \in {"returned", "killed"})
    /\ (FLAGS.max_number_of_steps # 0 ~> (gan_train_calls = 1 \/ pc = "killed"))

C2_Witness ==
    /\ FLAGS.max_number_of_steps = 0
    /\ pc = "returned"
    /\ train_steps # <<>>
    /\ gan_train_calls = 0

\* main has passed its directory check and reached graph construction.
GraphConstructionBegun == pc = "generator" \/ created_log # <<>>

\* C3: train_log_dir exists from the first graph-construction step onward, in
\* particular whenever gan_train is invoked, whether or not it existed when
\* main started; a directory that existed is not created again.
C3_LogDirExists ==
    /\ (GraphConstructionBegun => log_dir_exists)
    /\ (gan_train_calls > 0 => log_dir_exists)
    /\ (log_dir_existed => makedirs_calls = 0)
    /\ (~log_dir_existed /\ GraphConstructionBegun => makedirs_calls = 1)

C3_Witness ==
    /\ ~log_dir_existed
    /\ log_dir_exists
    /\ makedirs_calls = 1
    /\ gan_train_calls = 1

\* C4: the generator learning rate is the base rate at global step 0, and
\* the base rate times 0.9 at global step 60,000.
C4_GeneratorRateAtZeroAndFirstDecay ==
    gen_lr_used # <<>> =>
        /\ (gen_lr_used[1].step = 0 =>
               RateEq(gen_lr_used[1].value, RateOf(FLAGS.generator_lr)))
        /\ (gen_lr_used[1].step = 60000 =>
               RateEq(gen_lr_used[1].value,
                      [num |-> FLAGS.generator_lr * 9, den |-> 10, frac |-> 0]))

C4_Witness ==
    /\ gen_lr_used # <<>>
    /\ gen_lr_used[1].step = 60000
    /\ FLAGS.generator_lr = 100
    /\ RateEq(gen_lr_used[1].value, RateOf(90))

\* C5: the rate handed to the discriminator optimizer is discriminator_lr at
\* every global step: each discriminator update reads that value, and the
\* rate's value is the same at every step.
C5_DiscriminatorRateConstant ==
    /\ (dis_lr_used # <<>> =>
           RateEq(dis_lr_used[1].value, RateOf(FLAGS.discriminator_lr)))
    /\ (optimizers # <<>> =>
           \A s \in CheckpointSteps \cup {global_step} :
               RateEq(EvalRate(optimizers[1].dis_opt.learning_rate, s),
                      RateOf(FLAGS.discriminator_lr)))

C5_Witness ==
    /\ dis_lr_used # <<>>
    /\ dis_lr_used[1].step > 60000
    /\ FLAGS.discriminator_lr = 10
    /\ RateEq(dis_lr_used[1].value, RateOf(10))

\* C6: the discriminator is applied to the generated data first, which creates
\* its variables, then to the real data with reuse, which creates none; both
\* applications use the same variable set, the discriminator_variables of the
\* GANModel tuple.
C6_ParameterSharing ==
    gan_model # <<>> =>
        /\ Len(created_log) = 3
        /\ created_log[2] = gan_model[1].discriminator_gen_outputs.variables
        /\ created_log[2] # {}
        /\ created_log[3] = {}
        /\ gan_model[1].discriminator_real_outputs.variables =
               gan_model[1].discriminator_gen_outputs.variables
        /\ gan_model[1].discriminator_variables =
               gan_model[1].discriminator_gen_outputs.variables
        /\ gan_model[1].discriminator_variables \cap
               gan_model[1].generator_variables = {}

C6_Witness ==
    /\ gan_model # <<>>
    /\ Cardinality(gan_model[1].discriminator_variables) =
           Cardinality(DiscriminatorLayers)
    /\ gan_model[1].discriminator_real_outputs.data = "images"
    /\ gan_model[1].discriminator_gen_outputs.data = "reconstructions"
    /\ created_log[3] = {}

\* C7: with max_number_of_steps = N > 0 the training loop, unless the process
\* is terminated, eventually stops; it stops exactly when N steps have been
\* taken since it started, and runs no iteration beyond them.
C7_StopsAtBudget ==
    /\ [](FLAGS.max_number_of_steps > 0 /\ gan_train_calls > 0 =>
            /\ Iterations <= FLAGS.max_number_of_steps
            /\ gen_updates <= FLAGS.max_number_of_steps
            /\ (pc \in LoopPcs => Iterations < FLAGS.max_number_of_steps)
            /\ (pc = "done" => Iterations = FLAGS.max_number_of_steps)
            /\ (Iterations = FLAGS.max_number_of_steps => pc = "done"))
    /\ ((FLAGS.max_number_of_steps > 0 /\ pc = "gan_train")
            ~> pc \in {"done", "killed"})

C7_Witness ==
    /\ FLAGS.max_number_of_steps > 1
    /\ pc = "done"
    /\ Iterations = FLAGS.max_number_of_steps
    /\ gen_updates = FLAGS.max_number_of_steps

\* The rate read by a generator update is base_rate * 0.9^floor(step / 60000).
GeneratorRateIsStaircase ==
    gen_lr_used # <<>> =>
        LET k == gen_lr_used[1].step \div 60000
        IN  RateEq(gen_lr_used[1].value,
                   [num |-> FLAGS.generator_lr * Pow(9, k),
                    den |-> Pow(10, k), frac |-> 0])

\* From one generator update to the next the global step does not decrease,
\* and the rate is unchanged unless a multiple of 60,000 was crossed.
GeneratorRateChangesOnlyAtBoundary ==
    (gen_lr_used # <<>> /\ gen_lr_used' # <<>>) =>
        /\ gen_lr_used'[1].step >= gen_lr_used[1].step
        /\ (gen_lr_used'[1].step \div 60000 = gen_lr_used[1].step \div 60000 =>
               RateEq(gen_lr_used'[1].value, gen_lr_used[1].value))

\* From one generator update to the next the rate does not increase.
GeneratorRateNeverIncreases ==
    (gen_lr_used # <<>> /\ gen_lr_used' # <<>>) =>
        RateLeq(gen_lr_used'[1].value, gen_lr_used[1].value)

\* C8 as stated: the generator rate is base_rate * 0.9^floor(s / 60000) at
\* every step s, changes only across a multiple of 60,000, and never increases
\* as the global step increases.
C8_Original ==
    /\ []GeneratorRateIsStaircase
    /\ [][GeneratorRateChangesOnlyAtBoundary]_vars
    /\ [][GeneratorRateNeverIncreases]_vars

\* C8, amended: the generator rate is base_rate * 0.9^floor(s / 60000) at every
\* step s and changes only across a multiple of 60,000; it never increases as
\* the global step increases when generator_lr >= 0, and never decreases when
\* generator_lr <= 0.
C8_StaircaseDecay ==
    /\ []GeneratorRateIsStaircase
    /\ [][GeneratorRateChangesOnlyAtBoundary]_vars
    /\ [][FLAGS.generator_lr >= 0 => GeneratorRateNeverIncreases]_vars
    /\ [][(FLAGS.generator_lr <= 0 /\ gen_lr_used # <<>> /\ gen_lr_used' # <<>>) =>
              RateLeq(gen_lr_used[1].value, gen_lr_used'[1].value)]_vars

C8_Witness ==
    /\ gen_lr_used # <<>>
    /\ start_step < 60000
    /\ gen_lr_used[1].step = 60000
    /\ gen_updates >= 2
    /\ FLAGS.generator_lr = 100
    /\ RateEq(gen_lr_used[1].value, RateOf(90))

\* C9: every iteration of the loop runs the generator update once and then
\* the discriminator update discriminator_train_steps times; with
\* weight_factor = 0 no discriminator update ever runs, with weight_factor > 0
\* each generator update is followed by exactly one discriminator update.
C9_AlternatingUpdates ==
    LET d == IF FLAGS.weight_factor > 0 THEN 1 ELSE 0
    IN  /\ (pc = "gen_hook" =>
               /\ gen_updates = Iterations + hook_i
               /\ hook_i <= 1
               /\ dis_updates = d * Iterations)
        /\ (pc = "dis_hook" =>
               /\ gen_updates = Iterations + 1
               /\ hook_i <= d
               /\ dis_updates = d * Iterations + hook_i)
        /\ (pc = "run" =>
               /\ gen_updates = Iterations + 1
               /\ dis_updates = d * (Iterations + 1))
        /\ (pc = "done" =>
               /\ gen_updates = Iterations
               /\ dis_updates = d * Iterations)
        /\ (FLAGS.weight_factor = 0 => dis_updates = 0 /\ dis_lr_used = <<>>)
        /\ dis_updates <= gen_updates

C9_Witness ==
    /\ FLAGS.weight_factor = 0
    /\ pc = "done"
    /\ gen_updates >= 2
    /\ dis_updates = 0

\* C10: for every weight_factor, negative ones included, the discriminator
\* step count is 0 or 1 and adversarial-loss summaries are added exactly when
\* it is 1; a negative weight_factor gives no discriminator updates and no
\* summaries while the adversarial term enters the loss with that weight.
C10_StepCountAndSummaries ==
    train_steps # <<>> =>
        /\ train_steps[1].discriminator_train_steps \in {0, 1}
        /\ (gan_loss[1].add_summaries <=>
               train_steps[1].discriminator_train_steps = 1)
        /\ (FLAGS.weight_factor < 0 =>
               /\ train_steps[1].discriminator_train_steps = 0
               /\ ~gan_loss[1].add_summaries
               /\ gan_loss[1].adversarial_weight = FLAGS.weight_factor
               /\ dis_updates = 0)

C10_Witness ==
    /\ FLAGS.weight_factor < 0
    /\ pc = "done"
    /\ train_steps[1].discriminator_train_steps = 0
    /\ ~gan_loss[1].add_summaries
    /\ gan_loss[1].adversarial_weight < 0
    /\ dis_updates = 0

====
